---- MODULE Spec2Model ----
(***************************************************************************)
(* BatchSelectionExecutor (src/coprocessor/dag/batch_executor/             *)
(* selection_executor.rs): a pull-based filter that buffers the rows of    *)
(* upstream chunks that pass every condition and hands them out in         *)
(* batches of the size the caller asks for, with a deferred error.         *)
(*                                                                         *)
(* next_batch is modelled in three steps: NextBatchBegin (the entry        *)
(* assertion), FillBuffer (one iteration of the while loop, the whole of   *)
(* fill_buffer) and NextBatchReturn (everything after the loop).           *)
(***************************************************************************)
EXTENDS Integers, Sequences, FiniteSets, TLC

\* ---------------------------------------------------------------- bounds
MaxChunk == 2     \* most rows upstream puts in one chunk
MaxRows == 3      \* most rows upstream produces in all
MaxExpect == 2    \* largest expect_rows a caller passes

\* The chunk size fill_buffer asks upstream for.
FetchSize == 1024

\* context.columns_info: a schema of two columns, the first one the handle.
Cols == {1, 2}
PkHandle == CHOOSE c \in Cols : \A d \in Cols : c <= d
Vals == {0, 1}
NoError == "none"
UpErrors == {"E1", "E2"}

Min(a, b) == IF a < b THEN a ELSE b

\* ------------------------------------------------------------ the state
VARIABLES
    conditions,        \* self.conditions: the list of predicates
    pk_handle,         \* the column whose get_pk_handle() is true
    referred_columns,  \* self.referred_columns
    pending_form,      \* raw / decoded form of each column of pending_data
    pending_data,      \* self.pending_data: the buffered rows
    pending_error,     \* self.pending_error
    has_thrown_error,  \* self.has_thrown_error
    has_drained,       \* self.has_drained
    pc,                \* "idle": between calls; "loop": inside next_batch
    expect_rows,       \* the argument of the running (or last) next_batch
    fetched,           \* history: every row upstream has delivered, in order
    up_drained,        \* history: upstream has returned a zero-row chunk
    chunk,             \* the last chunk fetched, as fill_buffer left it
    decode_calls,      \* history: columns ensure_column_decoded was called on
    returned,          \* history: every row returned to the caller, in order
    surfaced,          \* history: the errors attached to results, in order
    recorded,          \* history: the errors stored into pending_error
    last,              \* the last BatchExecuteResult returned
    outcome            \* "none" | "ok" | "panic" | "fill_panic": the last call

vars == <<conditions, pk_handle, referred_columns, pending_form, pending_data,
          pending_error, has_thrown_error, has_drained, pc, expect_rows,
          fetched, up_drained, chunk, decode_calls, returned, surfaced,
          recorded, last, outcome>>

\* A predicate "column col > gt" (the compiled RpnExpressionNodeVec).
Predicates == [col : Cols, gt : {0}]

RECURSIVE SeqsUpTo(_, _)
SeqsUpTo(S, n) ==
    IF n = 0 THEN {<<>>}
    ELSE LET shorter == SeqsUpTo(S, n - 1)
         IN  shorter \cup {Append(s, x) : s \in {t \in shorter : Len(t) = n - 1}, x \in S}

\* The lists of conditions an operator is built with: every list of distinct
\* predicates, the empty one included.
ConditionLists ==
    {s \in SeqsUpTo(Predicates, Cardinality(Predicates)) :
        \A i, j \in 1..Len(s) : s[i] = s[j] => i = j}

\* ------------------------------------------------------ collaborators
\* ExprColumnRefVisitor::column_offsets: the columns the conditions refer to.
ColumnOffsets(conds) == {conds[i].col : i \in 1..Len(conds)}

\* RpnExpressionNodeVec::eval_as_bools: one boolean per row.
EvalAsBools(condition, data) ==
    [i \in 1..Len(data) |-> data[i].vals[condition.col] > condition.gt]

\* The form in which upstream delivers each column of a chunk: the handle
\* column decoded, the others raw.
UpstreamForm(pk) == [c \in Cols |-> IF c = pk THEN "decoded" ELSE "raw"]

\* LazyBatchColumnVec::ensure_column_decoded.
EnsureColumnDecoded(form, idx) == [form EXCEPT ![idx] = "decoded"]

\* LazyBatchColumnVec::append_by_index: the rows of data whose index the
\* closure accepts, appended in order.
RECURSIVE AppendByIndex(_, _, _, _)
AppendByIndex(dest, data, retain, i) ==
    IF i > Len(data) THEN dest
    ELSE AppendByIndex(IF retain[i] THEN Append(dest, data[i]) ELSE dest,
                       data, retain, i + 1)

\* LazyBatchColumnVec::take_and_collect: splits off the first n rows.
TakeAndCollect(buf, n) ==
    LET k == Min(n, Len(buf))
    IN  [taken |-> SubSeq(buf, 1, k), rest |-> SubSeq(buf, k + 1, Len(buf))]

\* -------------------------------------------------------------- new
\* new, lines 53-57.
ReferredColumns(conds) == ColumnOffsets(conds)

\* new, lines 59-77: the form of each column of the empty pending buffer.
PendingForm(referred, pk) ==
    [c \in Cols |-> IF c \in referred \/ c = pk THEN "decoded" ELSE "raw"]

NoChunk ==
    [data |-> <<>>, error |-> NoError, form |-> UpstreamForm(0), retain |-> <<>>,
     asked |-> 0, failed |-> 0]
NoResult == [data |-> <<>>, error |-> NoError]

Init ==
    /\ conditions \in ConditionLists
    /\ pk_handle = PkHandle
    /\ referred_columns = ReferredColumns(conditions)
    /\ pending_form = PendingForm(referred_columns, pk_handle)
    /\ pending_data = <<>>
    /\ pending_error = NoError
    /\ has_thrown_error = FALSE
    /\ has_drained = FALSE
    /\ pc = "idle"
    /\ expect_rows = 0
    /\ fetched = <<>>
    /\ up_drained = FALSE
    /\ chunk = NoChunk
    /\ decode_calls = {}
    /\ returned = <<>>
    /\ surfaced = <<>>
    /\ recorded = <<>>
    /\ last = NoResult
    /\ outcome = "none"

\* ------------------------------------------------------ filter_rows
\* Mutant: head overwrites base (= in place of &=).
MergeRetainMapOverwrite(base, head) == [i \in 1..Len(base) |-> head[i]]

\* filter_rows, lines 126-128: head merged into base, row by row.
MergeRetainMap(base, head) == [i \in 1..Len(base) |-> base[i] /\ head[i]]

\* filter_rows, lines 119-129: the loop over the conditions, in list order.
RECURSIVE EvalConditions(_, _, _)
EvalConditions(conds, data, base) ==
    IF conds = <<>> THEN base
    ELSE EvalConditions(Tail(conds), data,
                        MergeRetainMap(base, EvalAsBools(Head(conds), data)))

\* filter_rows, lines 99-132: the final retain map, and the Result, which is
\* Ok(()) on every path.
FilterRows(conds, data, base_retain_map) ==
    [retain |-> EvalConditions(conds, data, base_retain_map), err |-> NoError]

\* filter_rows, lines 119-129, when the evaluation of condition number fail
\* fails: eval_as_bools is called as a statement, so nothing of the failure
\* reaches filter_rows; head holds whatever the evaluator left in it
\* (garbage), is merged like any other, and the loop goes on.
RECURSIVE EvalConditionsWhen(_, _, _, _, _, _)
EvalConditionsWhen(conds, data, base, k, fail, garbage) ==
    IF k > Len(conds) THEN base
    ELSE LET head == IF k = fail THEN garbage ELSE EvalAsBools(conds[k], data)
         IN  EvalConditionsWhen(conds, data, MergeRetainMap(base, head),
                                k + 1, fail, garbage)

\* filter_rows, lines 99-132, on such a chunk: still Ok(()), line 131.
FilterRowsWhen(conds, data, base_retain_map, fail, garbage) ==
    [retain |-> EvalConditionsWhen(conds, data, base_retain_map, 1, fail, garbage),
     err |-> NoError]

\* ------------------------------------------------------ fill_buffer
\* fill_buffer, line 138.
FillAssert(drained) == ~drained

\* Mutant: the caller's expect_rows is passed on to upstream.
FetchRequestExpect == expect_rows

\* fill_buffer, line 141: the size asked of upstream.
FetchRequest == FetchSize

\* Mutant: every column of the schema is decoded.
DecodeTargetsAll(referred) == Cols

\* fill_buffer, line 143: the columns the decode loop visits.
DecodeTargets(referred) == referred

\* fill_buffer, lines 143-151: ensure_column_decoded on each of them.
RECURSIVE DecodeColumns(_, _)
DecodeColumns(form, todo) ==
    IF todo = {} THEN form
    ELSE LET idx == CHOOSE c \in todo : TRUE
         IN  DecodeColumns(EnsureColumnDecoded(form, idx), todo \ {idx})

\* Mutant: a chunk shorter than the request counts as the end of upstream.
ResultIsDrainedWhenShort(data) == Len(data) < FetchRequest

\* fill_buffer, line 153.
ResultIsDrained(data) == Len(data) = 0

\* Mutant: the base map starts all false, like the head map of line 117.
InitRetainMapFalse(rows_len) == [i \in 1..rows_len |-> FALSE]

\* fill_buffer, line 156.
InitRetainMap(rows_len) == [i \in 1..rows_len |-> TRUE]

\* Mutant: the retained rows go in front of the buffered ones.
PendingAfterPrepend(pending, data, retain_map) ==
    AppendByIndex(<<>>, data, retain_map, 1) \o pending

\* fill_buffer, lines 160-161.
PendingAfterAppend(pending, data, retain_map) ==
    AppendByIndex(pending, data, retain_map, 1)

\* fill_buffer, lines 162-166: take().or_else(filter error).or(result.error).
MergeError(pending, filter_err, result_err) ==
    IF pending # NoError THEN pending
    ELSE IF filter_err # NoError THEN filter_err
    ELSE result_err

\* Mutant: only an error ends the fetching.
HasDrainedAfterOnlyError(perr, result_is_drained) == perr # NoError

\* Mutant: only a zero-row chunk ends the fetching.
HasDrainedAfterOnlyEmpty(perr, result_is_drained) == result_is_drained

\* fill_buffer, line 168.
HasDrainedAfter(perr, result_is_drained) == perr # NoError \/ result_is_drained

\* The chunks upstream may answer a request of n rows with: at most n rows
\* (and at most MaxChunk, and MaxRows in all), each with fresh values, with
\* or without an error.
ChunkLens(n) == 0..Min(Min(n, MaxChunk), MaxRows - Len(fetched))
ChunkRows(len, vs) == [i \in 1..len |-> [id |-> Len(fetched) + i, vals |-> vs[i]]]

\* ------------------------------------------------------- next_batch
\* next_batch, line 175.
EntryAssert(thrown) == ~thrown

\* Mutant: the loop stops as soon as the buffer holds a row.
LoopCondUntilNonEmpty(drained, buffered, expect) ==
    ~drained /\ buffered = 0 /\ expect > 0

\* Mutant: <= in place of <.
LoopCondLe(drained, buffered, expect) == ~drained /\ buffered <= expect

\* next_batch, line 178: the condition of the fill loop.
LoopCond(drained, buffered, expect) == ~drained /\ buffered < expect

\* Mutant: one row more than asked for.
TakeDataOneMore(pending, expect) == TakeAndCollect(pending, expect + 1)

\* next_batch, line 184.
TakeData(pending, expect) == TakeAndCollect(pending, expect)

\* Mutant: <= in place of <.
EmitErrorWhenFull(rows_len, expect, perr) ==
    IF rows_len <= expect
    THEN [error |-> perr, pending |-> NoError]
    ELSE [error |-> NoError, pending |-> perr]

\* Mutant: take() hoisted out of the if, so a full batch drops the error.
EmitErrorTakeFirst(rows_len, expect, perr) ==
    [error |-> IF rows_len < expect THEN perr ELSE NoError, pending |-> NoError]

\* Mutant: the pending error is attached whatever the result holds.
EmitErrorAlways(rows_len, expect, perr) ==
    [error |-> perr, pending |-> NoError]

\* next_batch, lines 186-190: the error of the result, and what stays pending.
EmitError(rows_len, expect, perr) ==
    IF rows_len < expect
    THEN [error |-> perr, pending |-> NoError]
    ELSE [error |-> NoError, pending |-> perr]

\* Mutant: the flag is never set.
ThrownAfterNever(thrown, error) == thrown

\* next_batch, lines 192-194.
ThrownAfter(thrown, error) == IF error # NoError THEN TRUE ELSE thrown

\* ---------------------------------------------------------- actions
\* next_batch, lines 174-175, on a call that passes the entry assertion.
NextBatchBegin(n) ==
    /\ pc = "idle"
    /\ EntryAssert(has_thrown_error)
    /\ pc' = "loop"
    /\ expect_rows' = n
    /\ UNCHANGED <<conditions, pk_handle, referred_columns, pending_form,
                   pending_data, pending_error, has_thrown_error, has_drained,
                   fetched, up_drained, chunk, decode_calls, returned,
                   surfaced, recorded, last, outcome>>

\* next_batch, lines 174-175, on a call that fails the entry assertion: the
\* call panics and returns nothing.
NextBatchPanic(n) ==
    /\ pc = "idle"
    /\ ~EntryAssert(has_thrown_error)
    /\ n \in 0..MaxExpect
    /\ outcome' = "panic"
    /\ UNCHANGED <<conditions, pk_handle, referred_columns, pending_form,
                   pending_data, pending_error, has_thrown_error, has_drained,
                   pc, expect_rows, fetched, up_drained, chunk, decode_calls, returned,
                   surfaced, recorded, last>>

\* fill_buffer, lines 140-168: fetch, decode, filter, append, merge the
\* error. fail is the number of the condition whose evaluation fails on this
\* chunk, 0 when none does.
FillCycle(fail) ==
    \E len \in ChunkLens(FetchRequest), err \in {NoError} \cup UpErrors :
    \E vs \in [1..len -> [Cols -> Vals]] :
    \E garbage \in IF fail = 0 THEN {<<>>} ELSE [1..len -> BOOLEAN] :
      LET data == ChunkRows(len, vs)
          targets == DecodeTargets(referred_columns)
          form == DecodeColumns(UpstreamForm(pk_handle), targets)
          result_is_drained == ResultIsDrained(data)
          filter_result ==
              IF fail = 0
              THEN FilterRows(conditions, data, InitRetainMap(Len(data)))
              ELSE FilterRowsWhen(conditions, data, InitRetainMap(Len(data)),
                                  fail, garbage)
          retain_map == filter_result.retain
          perr == MergeError(pending_error, filter_result.err, err)
      IN  /\ fetched' = fetched \o data
          /\ up_drained' = (up_drained \/ len = 0)
          /\ decode_calls' = decode_calls \cup targets
          /\ chunk' = [data |-> data, error |-> err, form |-> form,
                       retain |-> retain_map, asked |-> FetchRequest,
                       failed |-> fail]
          /\ pending_data' = PendingAfterAppend(pending_data, data, retain_map)
          /\ pending_error' = perr
          /\ recorded' = IF pending_error = NoError /\ perr # NoError
                         THEN Append(recorded, perr) ELSE recorded
          /\ has_drained' = HasDrainedAfter(perr, result_is_drained)
          /\ UNCHANGED <<pc, outcome>>

\* Mutant: the loop and fill_buffer do not look at has_drained.
FillBufferWhileDrained ==
    /\ pc = "loop"
    /\ Len(pending_data) < expect_rows
    /\ FillCycle(0)
    /\ UNCHANGED <<conditions, pk_handle, referred_columns, pending_form,
                   has_thrown_error, expect_rows, returned, surfaced, last>>

\* One iteration of the loop of lines 178-180: fill_buffer, lines 137-169.
FillBuffer ==
    /\ pc = "loop"
    /\ LoopCond(has_drained, Len(pending_data), expect_rows)
    /\ IF ~FillAssert(has_drained)
       THEN /\ pc' = "idle"
            /\ outcome' = "fill_panic"
            /\ UNCHANGED <<pending_data, pending_error, has_drained, fetched,
                           up_drained, chunk, decode_calls, recorded>>
       ELSE FillCycle(0)
    /\ UNCHANGED <<conditions, pk_handle, referred_columns, pending_form,
                   has_thrown_error, expect_rows, returned, surfaced, last>>

\* The same iteration on a chunk on which the evaluation of one of the
\* conditions fails.
FillBufferEvalFails ==
    /\ pc = "loop"
    /\ LoopCond(has_drained, Len(pending_data), expect_rows)
    /\ FillAssert(has_drained)
    /\ \E fail \in 1..Len(conditions) : FillCycle(fail)
    /\ UNCHANGED <<conditions, pk_handle, referred_columns, pending_form,
                   has_thrown_error, expect_rows, returned, surfaced, last>>

\* next_batch, lines 182-196: after the loop.
NextBatchReturn ==
    /\ pc = "loop"
    /\ ~LoopCond(has_drained, Len(pending_data), expect_rows)
    /\ LET split == TakeData(pending_data, expect_rows)
           data == split.taken
           emit == EmitError(Len(data), expect_rows, pending_error)
       IN  /\ pending_data' = split.rest
           /\ pending_error' = emit.pending
           /\ has_thrown_error' = ThrownAfter(has_thrown_error, emit.error)
           /\ returned' = returned \o data
           /\ surfaced' = IF emit.error # NoError
                          THEN Append(surfaced, emit.error) ELSE surfaced
           /\ last' = [data |-> data, error |-> emit.error]
    /\ outcome' = "ok"
    /\ pc' = "idle"
    /\ UNCHANGED <<conditions, pk_handle, referred_columns, pending_form,
                   has_drained, expect_rows, fetched, up_drained, chunk,
                   decode_calls, recorded>>

Next ==
    \/ \E n \in 0..MaxExpect : NextBatchBegin(n)
    \/ \E n \in 0..MaxExpect : NextBatchPanic(n)
    \/ FillBuffer
    \/ NextBatchReturn

Spec == Init /\ [][Next]_vars

\* The caller keeps calling next_batch with expect_rows >= 1, and a call
\* that has begun runs to its return.
FairSpec ==
    /\ Spec
    /\ WF_vars(FillBuffer)
    /\ WF_vars(NextBatchReturn)
    /\ SF_vars(\E n \in 1..MaxExpect : NextBatchBegin(n))

\* The operator under an evaluator that may fail on a chunk.
NextEvalFail == Next \/ FillBufferEvalFails

EvalFailSpec == Init /\ [][NextEvalFail]_vars

\* ------------------------------------------------------- properties
\* Every condition evaluates to true for the row.
RowPasses(row) ==
    \A k \in 1..Len(conditions) : EvalAsBools(conditions[k], <<row>>)[1]

Passing(rows) == SelectSeq(rows, RowPasses)

\* A step that is one fill cycle / the return of a call.
FillStep == pc = "loop" /\ pc' = "loop" /\ vars' # vars
ReturnStep == pc = "loop" /\ pc' = "idle" /\ outcome' = "ok"
Returned == pc = "idle" /\ outcome = "ok"

\* C1: the rows returned so far followed by the rows in the pending buffer
\* are, in order, the rows fetched so far that pass every condition.
C1_OrderPreserved == returned \o pending_data = Passing(fetched)

\* A second fill cycle has run, a row was filtered out, and surviving rows
\* are both returned and still buffered.
C1_Witness ==
    /\ returned # <<>>
    /\ pending_data # <<>>
    /\ Len(Passing(fetched)) < Len(fetched)
    /\ chunk.data # fetched

\* C2: in every fill cycle the retain map is the per-row AND of all the
\* conditions, and exactly the rows of the chunk that pass every condition
\* are appended to the pending buffer.
C2_Conjunction ==
    [][FillStep =>
        /\ chunk'.retain = [i \in 1..Len(chunk'.data) |-> RowPasses(chunk'.data[i])]
        /\ pending_data' = pending_data \o Passing(chunk'.data)]_vars

\* A chunk filtered by two different conditions kept one row and dropped one.
C2_Witness ==
    /\ Cardinality(referred_columns) = 2
    /\ \E i, j \in 1..Len(chunk.data) : chunk.retain[i] /\ ~chunk.retain[j]
    /\ pending_data # <<>>

\* C3: a call that passes the entry assertion returns the first
\* min(expect_rows, rows buffered after the fill loop) rows of the buffer,
\* so never more than expect_rows, and leaves the rest buffered.
C3_BoundedOutput ==
    [][ReturnStep =>
        LET k == Min(expect_rows, Len(pending_data))
        IN  /\ Len(last'.data) <= expect_rows
            /\ last'.data = SubSeq(pending_data, 1, k)
            /\ pending_data' = SubSeq(pending_data, k + 1, Len(pending_data))]_vars

\* A call returned exactly expect_rows >= 1 rows and left rows buffered.
C3_Witness ==
    /\ Returned
    /\ expect_rows >= 1
    /\ Len(last.data) = expect_rows
    /\ pending_data # <<>>

\* C4: a call attaches an error iff, after its fill loop, an error is
\* pending and it returns fewer than expect_rows rows; a call that returns
\* exactly expect_rows rows carries none and leaves the pending error as it is.
C4_ErrorWhenShort ==
    [][ReturnStep =>
        /\ last'.error # NoError <=>
              (pending_error # NoError /\ Len(last'.data) < expect_rows)
        /\ last'.error # NoError => last'.error = pending_error
        /\ Len(last'.data) = expect_rows =>
              (last'.error = NoError /\ pending_error' = pending_error)]_vars

\* A call returned a full batch without error while an error stays pending.
C4_Witness ==
    /\ Returned
    /\ expect_rows >= 1
    /\ Len(last.data) = expect_rows
    /\ last.error = NoError
    /\ pending_error # NoError

\* The number of results that carried error e.
TimesSurfaced(e) == Cardinality({i \in 1..Len(surfaced) : surfaced[i] = e})

\* C5: an error stored as the pending error is attached to one result and no
\* more: no error is attached twice, only stored errors are attached, and
\* while the caller keeps calling with expect_rows >= 1 a pending error is
\* eventually attached to a result.
C5_SurfacedOnce ==
    /\ [](/\ \A e \in UpErrors : TimesSurfaced(e) <= 1
          /\ \A i \in 1..Len(surfaced) : i <= Len(recorded) /\ surfaced[i] = recorded[i])
    /\ \A e \in UpErrors : (pending_error = e) ~> (TimesSurfaced(e) = 1)

\* An error stayed pending over a full batch and was attached by a later call.
C5_Witness ==
    /\ Returned
    /\ last.error # NoError
    /\ surfaced = recorded
    /\ Len(returned) > Len(last.data)

\* C6: once a result has carried an error, every further call fails the
\* entry assertion, whatever its expect_rows, and changes neither the buffer
\* nor anything else of the operator, and upstream is not called.
C6_Terminal ==
    [][surfaced # <<>> =>
        /\ outcome' = "panic"
        /\ UNCHANGED <<pending_data, pending_error, has_drained,
                       has_thrown_error, pc, fetched, up_drained, chunk,
                       returned, surfaced, last>>]_vars

\* A call made after an error was returned has panicked.
C6_Witness == outcome = "panic" /\ surfaced # <<>> /\ last.error # NoError

\* The last call returned fewer rows than asked for, and no error.
CleanShort == Returned /\ Len(last.data) < expect_rows /\ last.error = NoError

EndOfData ==
    /\ up_drained
    /\ has_drained
    /\ pending_data = <<>>
    /\ pending_error = NoError
    /\ ~has_thrown_error

\* C7: a result shorter than asked for and without error is a clean end of
\* data (upstream has returned a zero-row chunk, nothing is buffered, no
\* error is pending), and from then on every call returns zero rows and no
\* error and upstream is not called again.
C7_CleanEnd ==
    /\ [](CleanShort => EndOfData)
    /\ [][EndOfData =>
            /\ EndOfData'
            /\ fetched' = fetched /\ chunk' = chunk /\ returned' = returned
            /\ outcome' # "panic"
            /\ ReturnStep => (last'.data = <<>> /\ last'.error = NoError)]_vars

\* After rows were filtered out and rows were returned, a later call came
\* back empty and without error.
C7_Witness ==
    /\ CleanShort
    /\ last.data = <<>>
    /\ returned # <<>>
    /\ Len(returned) < Len(fetched)

\* C8: with no conditions every row of every chunk is retained: the rows
\* returned followed by the rows buffered are the rows fetched, and an error
\* is attached to a result only when every row fetched, those of the failing
\* chunk included, has been returned.
C8_EmptyConditions ==
    conditions = <<>> =>
        /\ returned \o pending_data = fetched
        /\ \A i \in 1..Len(chunk.retain) : chunk.retain[i]
        /\ surfaced # <<>> => (returned = fetched /\ pending_data = <<>>)

\* With no conditions, a chunk that came with rows and an error was the
\* second one fetched, and its error has been returned.
C8_Witness ==
    /\ conditions = <<>>
    /\ surfaced # <<>>
    /\ chunk.data # <<>>
    /\ chunk.error # NoError
    /\ Len(fetched) > Len(chunk.data)

\* The columns some condition refers to.
Referenced == {conditions[k].col : k \in 1..Len(conditions)}

\* C9: ensure_column_decoded is only called on referred columns, and a
\* column that no condition refers to and that is not the handle is raw in
\* the fetched chunk and in the pending buffer.
C9_ColumnPruning ==
    /\ decode_calls \subseteq Referenced
    /\ \A c \in Cols \ (Referenced \cup {pk_handle}) :
          /\ c \notin decode_calls
          /\ chunk.form[c] = "raw"
          /\ pending_form[c] = "raw"

\* A chunk was fetched and decoded under conditions that leave a column
\* other than the handle unreferenced.
C9_Witness ==
    /\ fetched # <<>>
    /\ decode_calls # {}
    /\ Cols \ (Referenced \cup {pk_handle}) # {}
    /\ pending_data # <<>>

\* C10: when a result carries an error the pending buffer is left empty and
\* every passing row fetched so far, those of a chunk delivered with the
\* error included, has been returned; and a call before which no row was
\* returned and that asks for more rows than pass, on an upstream that ends
\* in a zero-row chunk with an error, returns all the passing rows together
\* with that error.
C10_ErrorAfterAllRows ==
    /\ (Returned /\ last.error # NoError) =>
          (pending_data = <<>> /\ returned = Passing(fetched))
    /\ (/\ Returned /\ returned = last.data
        /\ chunk.data = <<>> /\ chunk.error # NoError
        /\ expect_rows > Len(Passing(fetched))) =>
          (last.data = Passing(fetched) /\ last.error = chunk.error)

\* A chunk came with an error and with rows, some of them filtered out; the
\* rows that pass came back in the result that carries the error.
C10_Witness ==
    /\ Returned
    /\ last.error # NoError
    /\ chunk.error = last.error
    /\ Passing(chunk.data) # <<>>
    /\ Len(Passing(chunk.data)) < Len(chunk.data)
    /\ last.data = Passing(chunk.data)

\* C11: once upstream has returned a zero-row chunk or a fill cycle has
\* stored an error, no fill cycle runs again, in this call or a later one;
\* the assertion at the head of fill_buffer never fails.
C11_NoFetchAfterDrained ==
    /\ [](outcome # "fill_panic")
    /\ [][(up_drained \/ recorded # <<>>) => ~FillStep]_vars

\* A later call asks for more rows than are buffered after upstream has
\* delivered rows and then its zero-row chunk.
C11_Witness ==
    /\ up_drained
    /\ fetched # <<>>
    /\ pc = "loop"
    /\ outcome = "ok"
    /\ Len(pending_data) < expect_rows

\* C12: has_drained and has_thrown_error, once true, stay true, and
\* has_thrown_error is only true when has_drained is.
C12_Monotone ==
    /\ [][/\ has_drained => has_drained'
          /\ has_thrown_error => has_thrown_error']_vars
    /\ [](has_thrown_error => has_drained)

\* Drained by an error on a chunk with rows, then errored.
C12_Witness ==
    /\ has_thrown_error
    /\ has_drained
    /\ ~up_drained
    /\ returned # <<>>

\* C13: a stored pending error is never replaced by another one; it only
\* changes by being cleared in the step that attaches it to a result.
C13_FirstFailureWins ==
    [][pending_error # NoError =>
        \/ pending_error' = pending_error
        \/ /\ pending_error' = NoError
           /\ ReturnStep
           /\ last'.error = pending_error]_vars

\* A later call is running while the error of an earlier fill cycle is
\* still stored.
C13_Witness ==
    /\ pending_error # NoError
    /\ pc = "loop"
    /\ outcome = "ok"
    /\ returned # <<>>

\* C14: a fill cycle only runs while has_drained is false and the buffer
\* holds fewer than expect_rows rows, and a call that returns with
\* has_drained still false has returned exactly expect_rows rows.
C14_FillOnlyWhenNeeded ==
    /\ [][FillStep => (~has_drained /\ Len(pending_data) < expect_rows)]_vars
    /\ []((Returned /\ ~has_drained) => Len(last.data) = expect_rows)

\* After two fill cycles a call returned a full batch, upstream not drained.
C14_Witness ==
    /\ Returned
    /\ ~has_drained
    /\ expect_rows >= 1
    /\ chunk.data # fetched
    /\ chunk.data # <<>>

\* The retain map with only the first n conditions applied.
PartialRetain(data, n) ==
    EvalConditions(SubSeq(conditions, 1, n), data, InitRetainMap(Len(data)))

\* C15: when the evaluation of condition k fails in a fill cycle, the retain
\* map holds conditions 1..k-1 only, the rows it retains are appended, the
\* failure becomes the pending error and has_drained is set.
C15_EvalFailureReported ==
    [][(FillStep /\ chunk'.failed > 0) =>
        LET partial == PartialRetain(chunk'.data, chunk'.failed - 1)
        IN  /\ chunk'.retain = partial
            /\ pending_data' = AppendByIndex(pending_data, chunk'.data, partial, 1)
            /\ pending_error' \notin UpErrors \cup {NoError}
            /\ has_drained']_vars

\* C16: every fill cycle asks upstream for 1024 rows, whatever expect_rows
\* and the buffer are; the rows a call does not return stay at the front of
\* the buffer, ahead of everything fetched later.
C16_FixedChunkSize ==
    /\ [][FillStep =>
            /\ chunk'.asked = 1024
            /\ SubSeq(pending_data', 1, Len(pending_data)) = pending_data]_vars
    /\ [][ReturnStep => pending_data = last'.data \o pending_data']_vars

\* A call for one row fetched a chunk of more rows and left the rest buffered.
C16_Witness ==
    /\ Returned
    /\ expect_rows = 1
    /\ chunk.asked = 1024
    /\ Len(chunk.data) > expect_rows
    /\ pending_data # <<>>
    /\ returned = last.data

\* C17: a pending error implies has_drained; has_thrown_error implies that
\* no error is pending and has_drained; so every fill cycle starts with no
\* pending error.
C17_ErrorImpliesDrained ==
    /\ [](pending_error # NoError => has_drained)
    /\ [](has_thrown_error => (pending_error = NoError /\ has_drained))
    /\ [][FillStep => pending_error = NoError]_vars

\* An error is pending between calls, with rows still buffered.
C17_Witness ==
    /\ pending_error # NoError
    /\ has_drained
    /\ pc = "idle"
    /\ pending_data # <<>>

\* C18: a call with expect_rows = 0 that passes the entry assertion runs no
\* fill cycle, returns zero rows and no error, and leaves the buffer, the
\* pending error and both flags as they were.
C18_ZeroRows ==
    [][(pc = "loop" /\ expect_rows = 0) =>
        /\ ReturnStep
        /\ last'.data = <<>>
        /\ last'.error = NoError
        /\ UNCHANGED <<pending_data, pending_error, has_drained,
                       has_thrown_error, fetched, up_drained, chunk>>]_vars

\* next_batch(0) returned while an error is pending and the buffer is empty.
C18_Witness ==
    /\ Returned
    /\ expect_rows = 0
    /\ pending_error # NoError
    /\ pending_data = <<>>

\* C19: every call returns (upstream ends within MaxRows rows); no fill
\* cycle runs after the first zero-row or error-carrying chunk; and after a
\* chunk with rows and no error that leaves the buffer short, the loop goes
\* on.
C19_Terminates ==
    /\ (pc = "loop") ~> (pc = "idle")
    /\ [][FillStep => (~up_drained /\ pending_error = NoError /\ recorded = <<>>)]_vars
    /\ [][(/\ FillStep
           /\ chunk'.data # <<>>
           /\ chunk'.error = NoError
           /\ Len(pending_data') < expect_rows) =>
          LoopCond(has_drained', Len(pending_data'), expect_rows')]_vars

\* A call pulled a chunk whose rows were all filtered out, then another one,
\* and returned rows.
C19_Witness ==
    /\ Returned
    /\ Len(fetched) > Len(chunk.data)
    /\ Passing(SubSeq(fetched, 1, Len(fetched) - Len(chunk.data))) = <<>>
    /\ returned = last.data
    /\ last.data # <<>>

====
